---------------------------- MODULE Spec2Model ----------------------------
(***************************************************************************)
(* Model of the two bulk-transfer scripts of off-db-utility:               *)
(*   import_openfoodfacts.py  (text-import: tab-separated file -> SQLite)  *)
(*   import_supabase_data.py  (remote-copy: PostgreSQL -> SQLite)          *)
(* One run of one script is a sequential process; pc is its position.      *)
(* The SQLite file is modelled by two views: committed (what is durable)   *)
(* and working (what the open connection sees, uncommitted rows included). *)
(***************************************************************************)
EXTENDS Integers, Sequences, FiniteSets, TLC

VARIABLES
    pipeline,        \* "text" or "remote": which script runs
    batch_size,      \* batch_size of the text loop and of the products loop
    csv_exists,      \* os.path.exists(csv_path)
    db_exists,       \* os.path.exists(db_path)
    csv_file,        \* the records csv.reader yields, header first
    remote_ok,       \* whether psycopg2.connect succeeds
    remote,          \* the remote tables at the start, in ORDER BY key order
    dest0,           \* the destination as it was before the first run
    pc,              \* position of the running script
    run,             \* number of the current run (1 = first)
    columns,         \* text: header list returned by get_csv_columns
    pos,             \* text: number of records the reader has yielded
    batch,           \* text: the batch buffer
    total_imported,  \* text: total_imported
    cur,             \* remote: table being exported
    total,           \* remote: the row count read before the loop
    offset,          \* remote: offset
    exported,        \* remote: exported
    rows,            \* remote: page returned by fetchall()
    counts,          \* remote: products_count / ingredients_count of main
    working,         \* destination as seen through the open connection
    committed,       \* destination as stored durably
    pg_conn,         \* "none", "open" or "closed"
    sqlite_conn,     \* "none", "open" or "closed"
    exit_code,       \* -1 while running, else the process exit status
    outcome,         \* "running", "completed" or "failed"
    writes,          \* per table: sizes of the batch writes of this run
    pending,         \* batches written since the last commit
    printed,         \* progress lines of this run: <<table, count>>
    first_result,    \* destination after the first completed run
    failure,         \* what made this run fail, "none" if nothing did
    prepared,        \* the schema step of this run has completed
    live,            \* the remote tables as they are now, in key order
    fetched,         \* remote: per table, the pages fetched in this run
    drifts           \* number of changes made to the remote tables so far

vars == <<pipeline, batch_size, csv_exists, db_exists, csv_file, remote_ok,
          remote, dest0, pc, run, columns, pos, batch, total_imported, cur,
          total, offset, exported, rows, counts, working, committed,
          pg_conn, sqlite_conn, exit_code, outcome, writes, pending,
          printed, first_result, failure, prepared, live, fetched,
          drifts>>

inputs == <<pipeline, batch_size, csv_exists, db_exists, csv_file,
            remote_ok, remote, dest0>>

-----------------------------------------------------------------------------
(* Bounds of the model *)

MaxBatch == 7        \* the largest batch_size tried
MaxRaw == 5          \* raw records have 0..MaxRaw fields
MaxGroup == 2        \* up to MaxGroup remote records share one key
MaxNull == 1         \* up to MaxNull remote records have a NULL key
MaxRuns == 2         \* the script is run up to MaxRuns times in a row
MaxDrift == 1        \* the remote tables change up to MaxDrift times

(* The values of batch_size tried (10000 in the source): one record, two   *)
(* records, and MaxBatch records.                                          *)
BatchSizes == {1, 2, MaxBatch}

(* Reporting thresholds of the three loops, scaled down with the batch     *)
(* sizes (source: 1000000, 50000 and 100000 for batches of 10000, 10000    *)
(* and 20000).                                                             *)
TextReportEvery == 4
ProductsReportEvery == 5
IngredientsReportEvery == 10

-----------------------------------------------------------------------------
(* Generic helpers *)

Min(a, b) == IF a < b THEN a ELSE b

RECURSIVE Sum(_)
Sum(s) == IF s = <<>> THEN 0 ELSE Head(s) + Sum(Tail(s))

Range(s) == {s[i] : i \in 1..Len(s)}

-----------------------------------------------------------------------------
(* Tables of the destination file *)

Tables == {"openfoodfacts", "products", "ingredients"}

TablesOf(p) == IF p = "text" THEN {"openfoodfacts"}
               ELSE {"products", "ingredients"}

NoTable == [exists |-> FALSE, indexes |-> {}, rows |-> <<>>]
EmptyTable(ix) == [exists |-> TRUE, indexes |-> ix, rows |-> <<>>]

IndexesOf(t) ==
    CASE t = "openfoodfacts" -> {"idx_openfoodfacts_code"}
      [] t = "products" -> {"idx_products_ean13", "idx_products_classification"}
      [] t = "ingredients" -> {"idx_ingredients_title", "idx_ingredients_class"}

(* batch_size of each loop: 10000, 10000 and 20000 in the source, i.e.     *)
(* ingredients are moved in batches twice as large.                        *)
BatchSizeOf(t) == IF t = "ingredients" THEN 2 * batch_size ELSE batch_size

ReportEveryOf(t) ==
    CASE t = "openfoodfacts" -> TextReportEvery
      [] t = "products" -> ProductsReportEvery
      [] t = "ingredients" -> IngredientsReportEvery


-----------------------------------------------------------------------------
(* Inputs of the text-import script: the tab-separated file *)

Empty == <<>>                  \* the empty string ''

ColCode == <<0, 1>>            \* column name "code"
ColProductName == <<0, 2>>     \* column name "product_name"
ColBrands == <<0, 3>>          \* column name "brands"
ColQuantity == <<0, 4>>        \* some further column name

Headers == { <<>>,
             <<ColCode>>,
             <<ColProductName, ColBrands>>,
             <<ColCode, ColProductName, ColBrands>>,
             <<ColCode, ColProductName, ColBrands, ColQuantity>> }

(* Number of fields of data record i: every count in 0..MaxRaw occurs,     *)
(* counts below, at and above the header's.                                *)
RawLen(i, shape) == (i + shape) % (MaxRaw + 1)

(* Field j of data record i; some fields are empty in the file itself.     *)
Field(i, j) == IF (i + j) % 3 = 0 THEN Empty ELSE <<i, j>>

RawRecord(i, shape) == [j \in 1..RawLen(i, shape) |-> Field(i, j)]

CsvFile(header, n, shape) ==
    <<header>> \o [i \in 1..n |-> RawRecord(i, shape)]

(* Numbers of source records tried for a loop of batch size b: none, one,  *)
(* one full batch, a batch and one record, and three batches and seven     *)
(* records.                                                                *)
RowCounts(b) == {0, 1, b, b + 1, 3 * b + 7}

(* Fewer of them, for the second table of a run: none, a batch and one     *)
(* record, and three batches and seven records.                            *)
TailCounts(b) == {0, b + 1, 3 * b + 7}

-----------------------------------------------------------------------------
(* Inputs of the remote-copy script: the remote tables *)

Null == 0                      \* the NULL key

(* Record i of a remote table is <<key, i>>; g consecutive records share a *)
(* key (g = 1: all keys differ) and the last z records have a NULL key.    *)
(* The sequence is the table in ORDER BY key order (NULLs last); nothing   *)
(* in the scripts says that the key column is unique or not null.          *)
KeyOf(i, g) == ((i - 1) \div g) + 1

RemoteRecords(n, g, z) ==
    [i \in 1..n |-> <<IF i > n - z THEN Null ELSE KeyOf(i, g), i>>]

(* The non-null keys of some records, and the places of those with a NULL  *)
(* key.                                                                    *)
Keys(recs) == {recs[i][1] : i \in 1..Len(recs)} \ {Null}
NullKeyed(recs) == {i \in 1..Len(recs) : recs[i][1] = Null}

-----------------------------------------------------------------------------
(* What the destination may hold before the first run: no table (a new or *)
(* missing file), or the tables of an earlier run.                         *)

OldTextRows == << <<ColCode>>, <<ColCode>> >>
OldRemoteRows == << <<1, 0>> >>

OldTable(t) ==
    [exists |-> TRUE, indexes |-> IndexesOf(t),
     rows |-> IF t = "openfoodfacts" THEN OldTextRows ELSE OldRemoteRows]

Priors == { [t \in Tables |-> NoTable], [t \in Tables |-> OldTable(t)] }

-----------------------------------------------------------------------------
(* Initial states *)

InitRun ==
    /\ pc = "main"
    /\ columns = <<>>
    /\ pos = 0
    /\ batch = <<>>
    /\ total_imported = 0
    /\ cur = "products"
    /\ total = 0
    /\ offset = 0
    /\ exported = 0
    /\ rows = <<>>
    /\ counts = [t \in {"products", "ingredients"} |-> 0]
    /\ pg_conn = "none"
    /\ sqlite_conn = "none"
    /\ exit_code = -1
    /\ outcome = "running"
    /\ writes = [t \in Tables |-> <<>>]
    /\ pending = 0
    /\ printed = <<>>
    /\ failure = "none"
    /\ prepared = FALSE
    /\ fetched = [t \in {"products", "ingredients"} |-> <<>>]

InitText ==
    /\ pipeline = "text"
    /\ csv_exists \in BOOLEAN
    /\ db_exists \in BOOLEAN
    /\ csv_file \in
         IF csv_exists
         THEN {<<>>} \cup
              { CsvFile(h, n, s) : h \in Headers,
                                   n \in RowCounts(batch_size),
                                   s \in 0..MaxRaw }
         ELSE {<<>>}
    /\ remote_ok = FALSE
    /\ remote = [t \in {"products", "ingredients"} |-> <<>>]

InitRemote ==
    /\ pipeline = "remote"
    /\ csv_exists = FALSE
    /\ db_exists = TRUE
    /\ csv_file = <<>>
    /\ remote_ok \in BOOLEAN
    /\ remote \in
         IF remote_ok
         THEN { [products |-> RemoteRecords(np, gz[1], gz[2]),
                 ingredients |-> RemoteRecords(ni, gz[1], gz[2])] :
                    np \in RowCounts(batch_size),
                    ni \in TailCounts(2 * batch_size),
                    gz \in {1, MaxGroup} \X {0, MaxNull} }
         ELSE { [t \in {"products", "ingredients"} |-> <<>>] }

Init ==
    /\ batch_size \in BatchSizes
    /\ InitText \/ InitRemote
    /\ dest0 \in IF db_exists THEN Priors ELSE {[t \in Tables |-> NoTable]}
    /\ working = dest0
    /\ committed = dest0
    /\ run = 1
    /\ first_result = [set |-> FALSE, dest |-> dest0]
    /\ live = remote
    /\ drifts = 0
    /\ InitRun

-----------------------------------------------------------------------------
(* SQLite: schema statements, inserts, commit and the end of a connection  *)

(* A DDL statement runs outside any transaction (the sqlite3 module opens  *)
(* one only before INSERT/UPDATE/DELETE/REPLACE), so it is durable at once.*)
(* A schema step without DROP that tolerates what exists (CREATE ... IF    *)
(* NOT EXISTS): the table keeps its rows.                                  *)
ApplyDDLKeep(d, st) ==
    CASE st.op = "drop" -> [ok |-> TRUE, d |-> d]
      [] st.op = "create" ->
           [ok |-> TRUE,
            d |-> IF d[st.table].exists THEN d
                  ELSE [d EXCEPT ![st.table] = EmptyTable({})]]
      [] st.op = "index" ->
           [ok |-> TRUE,
            d |-> [d EXCEPT ![st.table].indexes = @ \cup {st.index}]]

(* The result is [ok, d]: whether the statement succeeds, and the          *)
(* destination after it.                                                   *)
DropTable(d, t) ==                            \* DROP TABLE IF EXISTS t
    [ok |-> TRUE, d |-> [d EXCEPT ![t] = NoTable]]
CreateTable(d, t) ==                          \* CREATE TABLE t (...)
    IF d[t].exists THEN [ok |-> FALSE, d |-> d]
    ELSE [ok |-> TRUE, d |-> [d EXCEPT ![t] = EmptyTable({})]]
CreateIndex(d, t, ix) ==                      \* CREATE INDEX ix ON t(...)
    IF ~d[t].exists \/ ix \in d[t].indexes THEN [ok |-> FALSE, d |-> d]
    ELSE [ok |-> TRUE, d |-> [d EXCEPT ![t].indexes = @ \cup {ix}]]

ApplyDDL(d, st) ==
    CASE st.op = "drop" -> DropTable(d, st.table)
      [] st.op = "create" -> CreateTable(d, st.table)
      [] st.op = "index" -> CreateIndex(d, st.table, st.index)

(* The statements of a script run in order until one fails or k have run:  *)
(* [n, d] is how many have run and the destination after them.             *)
RECURSIVE RunDDL(_, _, _)
RunDDL(d, stmts, k) ==
    IF k = 0 \/ stmts = <<>> THEN [n |-> 0, d |-> d]
    ELSE LET r == ApplyDDL(d, Head(stmts))
         IN IF ~r.ok THEN [n |-> 0, d |-> d]
            ELSE LET q == RunDDL(r.d, Tail(stmts), k - 1)
                 IN [n |-> q.n + 1, d |-> q.d]

(* A batch write that inserts every record twice.                          *)
InsertManyTwice(tbl, recs) == [tbl EXCEPT !.rows = @ \o recs \o recs]

(* INSERT INTO t VALUES (...) for every record of a batch, in order.       *)
InsertMany(tbl, recs) == [tbl EXCEPT !.rows = @ \o recs]

(* Plain INSERT: no row is replaced.                                       *)
InsertPlain(rs, rec) == rs \o <<rec>>

(* INSERT OR IGNORE: a record whose key is present is dropped.             *)
InsertOrIgnore(rs, rec) ==
    IF rec[1] # Null /\ \E i \in 1..Len(rs) : rs[i][1] = rec[1]
    THEN rs ELSE rs \o <<rec>>

(* INSERT OR REPLACE: a row with the same key (ean13, title) is deleted    *)
(* and the record is added as a new row; NULL keys never conflict.         *)
InsertOrReplace(rs, rec) ==
    SelectSeq(rs, LAMBDA r : r[1] = Null \/ r[1] # rec[1]) \o <<rec>>

RECURSIVE ReplaceAll(_, _)
ReplaceAll(rs, recs) ==
    IF recs = <<>> THEN rs
    ELSE ReplaceAll(InsertOrReplace(rs, Head(recs)), Tail(recs))

InsertOrReplaceMany(tbl, recs) == [tbl EXCEPT !.rows = ReplaceAll(@, recs)]

(* conn.commit(): what the connection sees becomes durable.                *)
Commit(w) == w

(* The end of the connection commits the open transaction.                 *)
RollbackKeeps(d, w) == w

(* The connection ends (close(), or the process ends) without a commit:    *)
(* the open transaction is rolled back. d is the durable state, w what the *)
(* connection saw; the result is what the file holds afterwards.           *)
Rollback(d, w) == d

-----------------------------------------------------------------------------
(* import_openfoodfacts.py *)

(* Normalize without the elif branch: long records are not truncated.     *)
NormalizePadOnly(row, n) ==
    IF Len(row) < n THEN row \o [i \in 1..(n - Len(row)) |-> Empty]
    ELSE row

(* Normalize padding on the left and keeping the last n fields.            *)
NormalizeWrongSide(row, n) ==
    IF Len(row) < n THEN [i \in 1..(n - Len(row)) |-> Empty] \o row
    ELSE IF Len(row) > n THEN SubSeq(row, Len(row) - n + 1, Len(row))
    ELSE row

(* Lines 64-68: pad or truncate row to match the column count n.           *)
Normalize(row, n) ==
    IF Len(row) < n THEN row \o [i \in 1..(n - Len(row)) |-> Empty]
    ELSE IF Len(row) > n THEN SubSeq(row, 1, n)
    ELSE row

(* The except clause of main prints the error; main then returns and the   *)
(* process ends with status 0. The connection is never closed or           *)
(* committed: an open transaction is lost with the process.                *)
TextFail(kind, d, w) ==
    /\ pc' = "exited"
    /\ outcome' = "failed"
    /\ failure' = kind
    /\ exit_code' = 0
    /\ committed' = Rollback(d, w)
    /\ working' = Rollback(d, w)
    /\ pending' = 0
    /\ UNCHANGED <<inputs, live, fetched, drifts, run, columns, pos, batch, total_imported, cur,
                   total, offset, exported, rows, counts, pg_conn, writes,
                   printed, first_result, prepared>>

(* main, lines 100-106: both files must exist, else main returns.          *)
ti_main ==
    /\ pipeline = "text"
    /\ pc = "main"
    /\ IF csv_exists /\ db_exists
       THEN /\ pc' = "get_csv_columns"
            /\ UNCHANGED <<outcome, exit_code, failure>>
       ELSE /\ pc' = "exited"
            /\ outcome' = "failed"
            /\ failure' = "precondition"
            /\ exit_code' = 0
    /\ UNCHANGED <<inputs, live, fetched, drifts, run, columns, pos, batch, total_imported, cur,
                   total, offset, exported, rows, counts, working,
                   committed, pg_conn, sqlite_conn, writes, pending,
                   printed, first_result, prepared>>

(* get_csv_columns, lines 11-15 and 113: the first record of the file;     *)
(* next() raises on a file without any line.                               *)
get_csv_columns ==
    /\ pipeline = "text"
    /\ pc = "get_csv_columns"
    /\ IF csv_file = <<>>
       THEN /\ TextFail("read", committed, working)
            /\ UNCHANGED sqlite_conn
       ELSE /\ columns' = csv_file[1]
            /\ pc' = "create_table"
            /\ UNCHANGED <<inputs, live, fetched, drifts, run, pos, batch, total_imported, cur,
                           total, offset, exported, rows, counts, working,
                           committed, pg_conn, sqlite_conn, exit_code,
                           outcome, writes, pending, printed,
                           first_result, failure, prepared>>

TextDDL ==
    << [op |-> "drop", table |-> "openfoodfacts"],
       [op |-> "create", table |-> "openfoodfacts"],
       [op |-> "index", table |-> "openfoodfacts",
        index |-> "idx_openfoodfacts_code"] >>

(* How many statements of create_openfoodfacts_table run: CREATE TABLE     *)
(* fails without columns, CREATE INDEX fails without a column "code".      *)
TextDDLDone(cols) ==
    IF cols = <<>> THEN 1
    ELSE IF ColCode \notin Range(cols) THEN 2
    ELSE Len(TextDDL)

(* import_csv_data without the next(reader) of line 61: the reader starts  *)
(* at the first line of the file.                                          *)
create_table_keep_header ==
    /\ pipeline = "text"
    /\ pc = "create_table"
    /\ sqlite_conn' = "open"
    /\ LET r == RunDDL(committed, TextDDL, TextDDLDone(columns))
       IN IF r.n < Len(TextDDL)
          THEN TextFail("schema", r.d, r.d)
          ELSE /\ committed' = r.d
               /\ working' = r.d
               /\ prepared' = TRUE
               /\ batch' = <<>>
               /\ total_imported' = 0
               /\ pos' = 0
               /\ pc' = "for_row"
               /\ UNCHANGED <<inputs, live, fetched, drifts, run, columns,
                              cur, total, offset, exported, rows, counts,
                              pg_conn, exit_code, outcome, writes, pending,
                              printed, first_result, failure>>

(* Lines 117-120 and 17-35, then lines 39-61 of import_csv_data: connect,  *)
(* drop and recreate the table, empty the batch, skip the header.          *)
create_openfoodfacts_table ==
    /\ pipeline = "text"
    /\ pc = "create_table"
    /\ sqlite_conn' = "open"
    /\ LET r == RunDDL(committed, TextDDL, TextDDLDone(columns))
       IN IF r.n < Len(TextDDL)
          THEN TextFail("schema", r.d, r.d)
          ELSE /\ committed' = r.d
               /\ working' = r.d
               /\ prepared' = TRUE
               /\ batch' = <<>>
               /\ total_imported' = 0
               /\ pos' = 1
               /\ pc' = "for_row"
               /\ UNCHANGED <<inputs, live, fetched, drifts, run, columns, cur, total, offset,
                              exported, rows, counts, pg_conn, exit_code,
                              outcome, writes, pending, printed,
                              first_result, failure>>

(* The loop with the flush test len(batch) > batch_size.                   *)
ti_next_row_late_flush ==
    /\ pipeline = "text"
    /\ pc = "for_row"
    /\ IF pos < Len(csv_file)
       THEN LET row == Normalize(csv_file[pos + 1], Len(columns))
            IN /\ batch' = Append(batch, row)
               /\ pos' = pos + 1
               /\ pc' = IF Len(batch) + 1 > batch_size
                        THEN "executemany" ELSE "for_row"
       ELSE /\ pc' = IF batch # <<>> THEN "final_executemany"
                     ELSE "final_commit"
            /\ UNCHANGED <<batch, pos>>
    /\ UNCHANGED <<inputs, live, fetched, drifts, run, columns,
                   total_imported, cur, total, offset, exported, rows,
                   counts, working, committed, pg_conn, sqlite_conn,
                   exit_code, outcome, writes, pending, printed,
                   first_result, failure, prepared>>

(* Lines 63-72 and 81-82: one iteration of the for loop, or its end.       *)
ti_next_row ==
    /\ pipeline = "text"
    /\ pc = "for_row"
    /\ IF pos < Len(csv_file)
       THEN LET row == Normalize(csv_file[pos + 1], Len(columns))
            IN /\ batch' = Append(batch, row)
               /\ pos' = pos + 1
               /\ pc' = IF Len(batch) + 1 >= batch_size
                        THEN "executemany" ELSE "for_row"
       ELSE /\ pc' = IF batch # <<>> THEN "final_executemany"
                     ELSE "final_commit"
            /\ UNCHANGED <<batch, pos>>
    /\ UNCHANGED <<inputs, live, fetched, drifts, run, columns, total_imported, cur, total, offset,
                   exported, rows, counts, working, committed, pg_conn,
                   sqlite_conn, exit_code, outcome, writes, pending,
                   printed, first_result, failure, prepared>>

(* The reader raises on a record it cannot decode or split.                *)
ti_read_error ==
    /\ pipeline = "text"
    /\ pc = "for_row"
    /\ pos < Len(csv_file)
    /\ TextFail("read", committed, working)
    /\ UNCHANGED sqlite_conn

(* executemany binds len(columns) values per record.                       *)
BindOk(recs) == \A i \in 1..Len(recs) : Len(recs[i]) = Len(columns)

(* Lines 73-75 and 83-84: write the batch, count it, empty it. The write   *)
(* may fail at any record j, the records before it already inserted.       *)
TextWrite(next) ==
    /\ \E ok \in BOOLEAN :
         IF ok /\ BindOk(batch)
         THEN /\ working' = [working EXCEPT
                   !["openfoodfacts"] = InsertMany(@, batch)]
              /\ total_imported' = total_imported + Len(batch)
              /\ writes' = [writes EXCEPT
                   !["openfoodfacts"] = Append(@, Len(batch))]
              /\ pending' = pending + 1
              /\ batch' = <<>>
              /\ pc' = next
              /\ UNCHANGED <<inputs, live, fetched, drifts, run, columns, pos, cur, total, offset,
                             exported, rows, counts, committed, pg_conn,
                             sqlite_conn, exit_code, outcome, printed,
                             first_result, failure, prepared>>
         ELSE \E j \in 1..Len(batch) :
                LET w == [working EXCEPT !["openfoodfacts"] =
                            InsertMany(@, SubSeq(batch, 1, j - 1))]
                IN /\ TextFail("write", committed, w)
                   /\ UNCHANGED sqlite_conn

ti_executemany ==
    /\ pipeline = "text"
    /\ pc = "executemany"
    /\ TextWrite(IF (total_imported + Len(batch)) % TextReportEvery = 0
                 THEN "progress" ELSE "for_row")

(* Line 78 *)
ti_progress ==
    /\ pipeline = "text"
    /\ pc = "progress"
    /\ printed' = Append(printed, <<"openfoodfacts", total_imported>>)
    /\ pc' = "commit"
    /\ UNCHANGED <<inputs, live, fetched, drifts, run, columns, pos, batch, total_imported, cur,
                   total, offset, exported, rows, counts, working,
                   committed, pg_conn, sqlite_conn, exit_code, outcome,
                   writes, pending, first_result, failure, prepared>>

(* conn.commit() of line 79 (next = "for_row") and of line 86.             *)
TextCommit(next) ==
    /\ committed' = Commit(working)
    /\ pending' = 0
    /\ pc' = next
    /\ UNCHANGED <<inputs, live, fetched, drifts, run, columns, pos, batch, total_imported, cur,
                   total, offset, exported, rows, counts, working, pg_conn,
                   sqlite_conn, exit_code, outcome, writes, printed,
                   first_result, failure, prepared>>

ti_commit ==
    /\ pipeline = "text"
    /\ pc = "commit"
    /\ TextCommit("for_row")

(* Lines 82-84 *)
ti_final_executemany ==
    /\ pipeline = "text"
    /\ pc = "final_executemany"
    /\ TextWrite("final_commit")

(* Lines 86-88 *)
ti_final_commit ==
    /\ pipeline = "text"
    /\ pc = "final_commit"
    /\ TextCommit("stats")

(* main, lines 125-150: the statistics and the sample query, which names   *)
(* the columns code, product_name and brands; then conn.close().           *)
ti_stats ==
    /\ pipeline = "text"
    /\ pc = "stats"
    /\ IF {ColCode, ColProductName, ColBrands} \subseteq Range(columns)
       THEN /\ sqlite_conn' = "closed"
            /\ outcome' = "completed"
            /\ exit_code' = 0
            /\ pc' = "exited"
            /\ first_result' = IF first_result.set THEN first_result
                               ELSE [set |-> TRUE, dest |-> committed]
            /\ UNCHANGED <<inputs, live, fetched, drifts, run, columns, pos, batch,
                           total_imported, cur, total, offset, exported,
                           rows, counts, working, committed, pg_conn,
                           writes, pending, printed, failure, prepared>>
       ELSE /\ TextFail("report", committed, working)
            /\ UNCHANGED sqlite_conn

-----------------------------------------------------------------------------
(* import_supabase_data.py *)

(* The finally clause commits before it closes.                            *)
RemoteFailCommits(kind, d, w, sq) ==
    /\ pc' = "exited"
    /\ outcome' = "failed"
    /\ failure' = kind
    /\ exit_code' = 1
    /\ pg_conn' = IF pg_conn = "open" THEN "closed" ELSE pg_conn
    /\ sqlite_conn' = sq
    /\ committed' = w
    /\ working' = w
    /\ pending' = 0
    /\ UNCHANGED <<inputs, live, fetched, drifts, run, columns, pos, batch, total_imported, cur,
                   total, offset, exported, rows, counts, writes, printed,
                   first_result, prepared>>

(* Lines 210-220: either except clause calls sys.exit(1); the finally      *)
(* clause closes the connections main holds. sq is the SQLite connection   *)
(* afterwards: "closed" when main's local sqlite_conn is set, else as the  *)
(* failing call left it. Nothing is committed on this path.                *)
RemoteFail(kind, d, w, sq) ==
    /\ pc' = "exited"
    /\ outcome' = "failed"
    /\ failure' = kind
    /\ exit_code' = 1
    /\ pg_conn' = IF pg_conn = "open" THEN "closed" ELSE pg_conn
    /\ sqlite_conn' = sq
    /\ committed' = Rollback(d, w)
    /\ working' = Rollback(d, w)
    /\ pending' = 0
    /\ UNCHANGED <<inputs, live, fetched, drifts, run, columns, pos, batch, total_imported, cur,
                   total, offset, exported, rows, counts, writes, printed,
                   first_result, prepared>>

(* The schema statements of create_sqlite_db, lines 28-65.                 *)
RemoteDDL ==
    << [op |-> "drop", table |-> "products"],
       [op |-> "drop", table |-> "ingredients"],
       [op |-> "create", table |-> "products"],
       [op |-> "create", table |-> "ingredients"],
       [op |-> "index", table |-> "products",
        index |-> "idx_products_ean13"],
       [op |-> "index", table |-> "products",
        index |-> "idx_products_classification"],
       [op |-> "index", table |-> "ingredients",
        index |-> "idx_ingredients_title"],
       [op |-> "index", table |-> "ingredients",
        index |-> "idx_ingredients_class"] >>

(* main with create_sqlite_db called before psycopg2.connect.              *)
rc_connect_after_schema ==
    /\ pipeline = "remote"
    /\ pc = "main"
    /\ LET r == RunDDL(committed, RemoteDDL, Len(RemoteDDL))
       IN IF remote_ok
          THEN /\ pg_conn' = "open"
               /\ pc' = "create_sqlite_db"
               /\ UNCHANGED <<inputs, live, fetched, drifts, run, columns, pos, batch,
                              total_imported, cur, total, offset, exported,
                              rows, counts, working, committed, sqlite_conn,
                              exit_code, outcome, writes, pending, printed,
                              first_result, failure, prepared>>
          ELSE RemoteFail("precondition", r.d, r.d, "closed")

(* main, lines 174-183: psycopg2.connect *)
rc_connect ==
    /\ pipeline = "remote"
    /\ pc = "main"
    /\ IF remote_ok
       THEN /\ pg_conn' = "open"
            /\ pc' = "create_sqlite_db"
            /\ UNCHANGED <<inputs, live, fetched, drifts, run, columns, pos, batch, total_imported,
                           cur, total, offset, exported, rows, counts,
                           working, committed, sqlite_conn, exit_code,
                           outcome, writes, pending, printed,
                           first_result, failure, prepared>>
       ELSE RemoteFail("precondition", committed, working, sqlite_conn)

(* Lines 16-68 and 187: connect, drop and recreate both tables and their   *)
(* indexes. sqlite3.connect or a statement may fail (unwritable or locked  *)
(* file): the statements before it have run, main's sqlite_conn is not     *)
(* set, and a connection that was opened stays open.                       *)
create_sqlite_db ==
    /\ pipeline = "remote"
    /\ pc = "create_sqlite_db"
    /\ \E k \in 0..Len(RemoteDDL) :
         LET r == RunDDL(committed, RemoteDDL, k)
         IN IF r.n < Len(RemoteDDL)
            THEN \E sq \in (IF r.n = 0 THEN {"none", "open"}
                                        ELSE {"open"}) :
                    RemoteFail("schema", r.d, r.d, sq)
            ELSE /\ sqlite_conn' = "open"
                 /\ committed' = r.d
                 /\ working' = r.d
                 /\ prepared' = TRUE
                 /\ cur' = "products"
                 /\ pc' = "count"
                 /\ UNCHANGED <<inputs, live, fetched, drifts, run, columns, pos, batch,
                                total_imported, total, offset, exported,
                                rows, counts, pg_conn, exit_code, outcome,
                                writes, pending, printed, first_result,
                                failure>>

(* Lines 77-85 and 125-133: SELECT COUNT, then offset = 0, exported = 0. *)
rc_count ==
    /\ pipeline = "remote"
    /\ pc = "count"
    /\ total' = Len(live[cur])
    /\ offset' = 0
    /\ exported' = 0
    /\ pc' = "while"
    /\ UNCHANGED <<inputs, live, fetched, drifts, run, columns, pos, batch, total_imported, cur,
                   rows, counts, working, committed, pg_conn, sqlite_conn,
                   exit_code, outcome, writes, pending, printed,
                   first_result, failure, prepared>>

(* The page query without its LIMIT.                                       *)
PageNoLimit(tbl, n, off) == SubSeq(tbl, off + 1, Len(tbl))

(* SELECT ... ORDER BY key LIMIT n OFFSET off                              *)
Page(tbl, n, off) == SubSeq(tbl, off + 1, Min(off + n, Len(tbl)))

(* The loop as "while True": it ends only at an empty page.                *)
rc_fetch_until_empty ==
    /\ pipeline = "remote"
    /\ pc = "while"
    /\ LET page == Page(live[cur], BatchSizeOf(cur), offset)
       IN /\ fetched' = [fetched EXCEPT ![cur] = Append(@, page)]
          /\ IF page # <<>>
             THEN /\ rows' = page
                  /\ pc' = "executemany"
                  /\ UNCHANGED <<cur, counts>>
             ELSE /\ counts' = [counts EXCEPT ![cur] = exported]
                  /\ cur' = "ingredients"
                  /\ pc' = IF cur = "products" THEN "count" ELSE "report"
                  /\ UNCHANGED rows
    /\ UNCHANGED <<inputs, live, drifts, columns, pos, batch, run,
                   total_imported, total, offset, exported, working,
                   committed, pg_conn, sqlite_conn, exit_code, outcome,
                   writes, pending, printed, first_result, failure, prepared>>

(* Lines 87-98 (135-145): the loop test and the fetch of a page; when the  *)
(* loop ends the function returns exported (lines 115-116, 191-192).       *)
rc_fetch ==
    /\ pipeline = "remote"
    /\ pc = "while"
    /\ LET page == Page(live[cur], BatchSizeOf(cur), offset)
       IN /\ fetched' = IF offset < total
                        THEN [fetched EXCEPT ![cur] = Append(@, page)]
                        ELSE fetched
          /\ IF offset < total /\ page # <<>>
             THEN /\ rows' = page
                  /\ pc' = "executemany"
                  /\ UNCHANGED <<cur, counts>>
             ELSE /\ counts' = [counts EXCEPT ![cur] = exported]
                  /\ cur' = "ingredients"
                  /\ pc' = IF cur = "products" THEN "count" ELSE "report"
                  /\ UNCHANGED rows
    /\ UNCHANGED <<inputs, live, drifts, run, columns, pos, batch, total_imported, total,
                   offset, exported, working, committed, pg_conn,
                   sqlite_conn, exit_code, outcome, writes, pending,
                   printed, first_result, failure, prepared>>

(* The remote query fails (connection lost).                               *)
rc_fetch_error ==
    /\ pipeline = "remote"
    /\ pc = "while"
    /\ offset < total
    /\ RemoteFail("read", committed, working, "closed")

(* Lines 100-111 (147-157): write the page, advance the counters. The      *)
(* write may fail at any record j, the records before it already inserted. *)
rc_executemany ==
    /\ pipeline = "remote"
    /\ pc = "executemany"
    /\ \E ok \in BOOLEAN :
         IF ok
         THEN /\ working' = [working EXCEPT
                   ![cur] = InsertOrReplaceMany(@, rows)]
              /\ exported' = exported + Len(rows)
              /\ offset' = offset + BatchSizeOf(cur)
              /\ writes' = [writes EXCEPT ![cur] = Append(@, Len(rows))]
              /\ pending' = pending + 1
              /\ pc' = IF \/ (exported + Len(rows)) % ReportEveryOf(cur) = 0
                          \/ exported + Len(rows) = total
                       THEN "progress" ELSE "commit"
              /\ UNCHANGED <<inputs, live, fetched, drifts, run, columns, pos, batch,
                             total_imported, cur, total, rows, counts,
                             committed, pg_conn, sqlite_conn, exit_code,
                             outcome, printed, first_result, failure, prepared>>
         ELSE \E j \in 1..Len(rows) :
                LET w == [working EXCEPT ![cur] =
                            InsertOrReplaceMany(@, SubSeq(rows, 1, j - 1))]
                IN RemoteFail("write", committed, w, "closed")

(* Line 112 (158) *)
rc_progress ==
    /\ pipeline = "remote"
    /\ pc = "progress"
    /\ printed' = Append(printed, <<cur, exported>>)
    /\ pc' = "commit"
    /\ UNCHANGED <<inputs, live, fetched, drifts, run, columns, pos, batch, total_imported, cur,
                   total, offset, exported, rows, counts, working,
                   committed, pg_conn, sqlite_conn, exit_code, outcome,
                   writes, pending, first_result, failure, prepared>>

(* The loop without its commit.                                            *)
rc_no_commit ==
    /\ pipeline = "remote"
    /\ pc = "commit"
    /\ pc' = "while"
    /\ UNCHANGED <<inputs, live, fetched, drifts, run, columns, pos, batch,
                   total_imported, cur, total, offset, exported, rows,
                   counts, working, committed, pg_conn, sqlite_conn,
                   exit_code, outcome, writes, pending, printed,
                   first_result, failure, prepared>>

(* Line 113 (159): sqlite_conn.commit() *)
rc_commit ==
    /\ pipeline = "remote"
    /\ pc = "commit"
    /\ committed' = Commit(working)
    /\ pending' = 0
    /\ pc' = "while"
    /\ UNCHANGED <<inputs, live, fetched, drifts, run, columns, pos, batch, total_imported, cur,
                   total, offset, exported, rows, counts, working, pg_conn,
                   sqlite_conn, exit_code, outcome, writes, printed,
                   first_result, failure, prepared>>

(* main, lines 194-208 and the finally clause 216-220: the final report;   *)
(* both connections are closed and the process ends with status 0.         *)
rc_report ==
    /\ pipeline = "remote"
    /\ pc = "report"
    /\ pg_conn' = "closed"
    /\ sqlite_conn' = "closed"
    /\ outcome' = "completed"
    /\ exit_code' = 0
    /\ pc' = "exited"
    /\ first_result' = IF first_result.set THEN first_result
                       ELSE [set |-> TRUE, dest |-> committed]
    /\ UNCHANGED <<inputs, live, fetched, drifts, run, columns, pos, batch, total_imported, cur,
                   total, offset, exported, rows, counts, working,
                   committed, writes, pending, printed, failure, prepared>>

-----------------------------------------------------------------------------
(* The operator runs the script again, with the same inputs.               *)
rerun ==
    /\ pc = "exited"
    /\ run < MaxRuns
    /\ run' = run + 1
    /\ pc' = "main"
    /\ columns' = <<>>
    /\ pos' = 0
    /\ batch' = <<>>
    /\ total_imported' = 0
    /\ cur' = "products"
    /\ total' = 0
    /\ offset' = 0
    /\ exported' = 0
    /\ rows' = <<>>
    /\ counts' = [t \in {"products", "ingredients"} |-> 0]
    /\ pg_conn' = "none"
    /\ sqlite_conn' = "none"
    /\ exit_code' = -1
    /\ outcome' = "running"
    /\ writes' = [t \in Tables |-> <<>>]
    /\ pending' = 0
    /\ printed' = <<>>
    /\ working' = committed
    /\ failure' = "none"
    /\ prepared' = FALSE
    /\ fetched' = [t \in {"products", "ingredients"} |-> <<>>]
    /\ UNCHANGED <<inputs, live, drifts, committed, first_result>>

Next ==
    \/ ti_main
    \/ get_csv_columns
    \/ create_openfoodfacts_table
    \/ ti_next_row
    \/ ti_read_error
    \/ ti_executemany
    \/ ti_progress
    \/ ti_commit
    \/ ti_final_executemany
    \/ ti_final_commit
    \/ ti_stats
    \/ rc_connect
    \/ create_sqlite_db
    \/ rc_count
    \/ rc_fetch
    \/ rc_fetch_error
    \/ rc_executemany
    \/ rc_progress
    \/ rc_commit
    \/ rc_report
    \/ rerun

Spec == Init /\ [][Next]_vars

-----------------------------------------------------------------------------
(* The remote tables change while the script runs: other clients of the    *)
(* PostgreSQL server insert and delete rows. Each page query is its own    *)
(* statement (the cursor is read with fetchall, lines 88-96), so a change  *)
(* made between two queries is seen by the later one.                      *)

(* The table without its i-th row.                                         *)
DeleteRow(tbl, i) == SubSeq(tbl, 1, i - 1) \o SubSeq(tbl, i + 1, Len(tbl))

(* The number of rows with a non-null key: they come first in key order.   *)
KeyedRows(tbl) == Len(tbl) - Cardinality(NullKeyed(tbl))

(* The d-th row inserted: <<key, -d>>. Its key is new, below every key of  *)
(* the table (front) or above every non-null key (back), so the row goes   *)
(* first, or last before the rows with a NULL key.                         *)
InsertFront(tbl, d) == << <<0 - d, 0 - d>> >> \o tbl
InsertBack(tbl, d) ==
    SubSeq(tbl, 1, KeyedRows(tbl))
      \o << <<Len(tbl) + MaxDrift + d, 0 - d>> >>
      \o SubSeq(tbl, KeyedRows(tbl) + 1, Len(tbl))

(* One change of the table being copied. A change matters to the script   *)
(* only at its next query, so changes are taken just before a query: the   *)
(* count (pc = "count") or a page (pc = "while").                          *)
drift ==
    /\ pipeline = "remote"
    /\ pc \in {"count", "while"}
    /\ drifts < MaxDrift
    /\ drifts' = drifts + 1
    /\ \E tbl \in {InsertFront(live[cur], drifts + 1),
                    InsertBack(live[cur], drifts + 1)}
                   \cup {DeleteRow(live[cur], i) : i \in 1..Len(live[cur])} :
         live' = [live EXCEPT ![cur] = tbl]
    /\ UNCHANGED <<inputs, fetched, pc, run, columns, pos, batch,
                   total_imported, cur, total, offset, exported, rows,
                   counts, working, committed, pg_conn, sqlite_conn,
                   exit_code, outcome, writes, pending, printed,
                   first_result, failure, prepared>>

(* The inputs tried with a changing source: small tables and files.        *)
DriftSizes == {1, 2}
DriftCounts(b) == {0, b, 2 * b + 1}

InitDrift ==
    /\ batch_size \in DriftSizes
    /\ \/ /\ pipeline = "text"
          /\ csv_exists = TRUE
          /\ db_exists = TRUE
          /\ csv_file \in
               { CsvFile(<<ColCode, ColProductName, ColBrands>>, n, 0) :
                   n \in DriftCounts(batch_size) }
          /\ remote_ok = FALSE
          /\ remote = [t \in {"products", "ingredients"} |-> <<>>]
       \/ /\ pipeline = "remote"
          /\ csv_exists = FALSE
          /\ db_exists = TRUE
          /\ csv_file = <<>>
          /\ remote_ok = TRUE
          /\ remote \in
               { [products |-> RemoteRecords(np, g, z),
                  ingredients |-> RemoteRecords(ni, g, z)] :
                    np \in DriftCounts(batch_size),
                    ni \in {0, 2 * batch_size + 1},
                    g \in {1, MaxGroup}, z \in {0, MaxNull} }
    /\ dest0 = [t \in Tables |-> NoTable]
    /\ working = dest0
    /\ committed = dest0
    /\ run = 1
    /\ first_result = [set |-> FALSE, dest |-> dest0]
    /\ live = remote
    /\ drifts = 0
    /\ InitRun

(* A step of the script: every action but a new run.                       *)
RunStep ==
    \/ ti_main
    \/ get_csv_columns
    \/ create_openfoodfacts_table
    \/ ti_next_row
    \/ ti_read_error
    \/ ti_executemany
    \/ ti_progress
    \/ ti_commit
    \/ ti_final_executemany
    \/ ti_final_commit
    \/ ti_stats
    \/ rc_connect
    \/ create_sqlite_db
    \/ rc_count
    \/ rc_fetch
    \/ rc_fetch_error
    \/ rc_executemany
    \/ rc_progress
    \/ rc_commit
    \/ rc_report

NextDrift == RunStep \/ drift

(* The script is one sequential process that the interpreter keeps        *)
(* running: a step that can be taken is taken. Nothing is assumed of the   *)
(* changes of the source.                                                  *)
SpecDrift == InitDrift /\ [][NextDrift]_vars /\ WF_vars(RunStep)

-----------------------------------------------------------------------------
(* Properties *)

TextTable == working["openfoodfacts"].rows

(* The record of the file that the i-th record of the batch buffer, and    *)
(* the k-th row written in this run, were read from.                       *)
RawOfBatch(i) == csv_file[pos - Len(batch) + i]
RawOfRow(k) == csv_file[k + 1]

(* C1: in the text-import script every record put into the batch buffer,   *)
(* and so every record handed to executemany and every row written in this *)
(* run, has exactly len(columns) fields, whatever the number of fields of  *)
(* the record read; this covers the last, partial batch.                   *)
C1_RecordArity ==
    pipeline = "text" =>
      /\ \A i \in 1..Len(batch) : Len(batch[i]) = Len(columns)
      /\ prepared =>
           \A k \in 1..Len(TextTable) : Len(TextTable[k]) = Len(columns)

(* A last, partial batch is about to be written after a full one; it holds *)
(* a record read without any field, and a record with more fields than the *)
(* header has been written.                                                *)
C1_Witness ==
    /\ pipeline = "text"
    /\ pc = "final_executemany"
    /\ writes["openfoodfacts"] # <<>>
    /\ Len(batch) < batch_size
    /\ \E i \in 1..Len(batch) : Len(RawOfBatch(i)) = 0
    /\ \E k \in 1..Len(TextTable) : Len(RawOfRow(k)) > Len(columns)

(* What C2 says of a raw record r and the record out written for it.       *)
Normalized(r, n, out) ==
    /\ Len(out) = n
    /\ \A j \in 1..n : out[j] = IF j <= Len(r) THEN r[j] ELSE Empty

(* C2: normalization to arity n gives r followed by n - len(r) empty       *)
(* strings when r is short, the first n fields of r when r is long and r   *)
(* itself when len(r) = n; the fields kept have their values and order.    *)
(* Checked on every record of the batch buffer and every row written, and  *)
(* on the two examples of arity 4.                                         *)
C2_PadOrTruncate ==
    /\ Normalize(<<ColCode, ColBrands>>, 4)
         = <<ColCode, ColBrands, Empty, Empty>>
    /\ Normalize(<<ColCode, ColProductName, ColBrands, ColQuantity,
                   ColCode>>, 4)
         = <<ColCode, ColProductName, ColBrands, ColQuantity>>
    /\ pipeline = "text" =>
         /\ \A i \in 1..Len(batch) :
              Normalized(RawOfBatch(i), Len(columns), batch[i])
         /\ prepared =>
              \A k \in 1..Len(TextTable) :
                Normalized(RawOfRow(k), Len(columns), TextTable[k])

(* With four columns: a record of five fields is in the batch buffer and a *)
(* record of two fields has been written; a record of four is among them.  *)
C2_Witness ==
    /\ pipeline = "text"
    /\ Len(columns) = 4
    /\ pc = "executemany"
    /\ Len(RawOfBatch(Len(batch))) = 5
    /\ \E k \in 1..Len(TextTable) : Len(RawOfRow(k)) = 2
    /\ \E k \in 1..Len(TextTable) : Len(RawOfRow(k)) = 4

Completed == pc = "exited" /\ outcome = "completed"

(* C3: every batch is committed before the next one is written, so the     *)
(* destination never holds more than one written but uncommitted batch, in *)
(* both scripts.                                                           *)
C3_OneUncommittedBatch == pending <= 1

(* The count the script reports for table t.                               *)
WrittenCount(t) == IF t = "openfoodfacts" THEN total_imported ELSE counts[t]

(* C4 as stated: when a run completes, the sum of the written counts of    *)
(* the batches equals the number of rows of the destination table, for     *)
(* each table of either script.                                            *)
C4_CountEqualsRows ==
    Completed =>
      \A t \in TablesOf(pipeline) :
        /\ Sum(writes[t]) = WrittenCount(t)
        /\ WrittenCount(t) = Len(committed[t].rows)

(* C4 amended: when a run completes, the sum of the written counts of the  *)
(* batches is total_imported (exported). In text-import it is the number   *)
(* of rows of the table. In remote-copy the table holds one row for each   *)
(* distinct non-null key written and one for each record with a NULL key;  *)
(* that is at most exported, and equal to it exactly when no two records   *)
(* written share a non-null key.                                           *)
C4_CountAtLeastRows ==
    Completed =>
      \A t \in TablesOf(pipeline) :
        LET n == Len(committed[t].rows)
        IN /\ Sum(writes[t]) = WrittenCount(t)
           /\ pipeline = "text" =>
                /\ WrittenCount(t) = n
                /\ WrittenCount(t) = Len(csv_file) - 1
           /\ pipeline = "remote" =>
                /\ WrittenCount(t) = Len(remote[t])
                /\ n = Cardinality(Keys(remote[t]))
                         + Cardinality(NullKeyed(remote[t]))
                /\ n <= WrittenCount(t)

(* A remote-copy run has completed in which records shared a key and a     *)
(* record had a NULL key: fewer rows than records written.                 *)
C4_Witness ==
    /\ Completed
    /\ pipeline = "remote"
    /\ NullKeyed(remote["products"]) # {}
    /\ Len(committed["products"].rows) > 1
    /\ Len(committed["products"].rows) < counts["products"]
    /\ Len(committed["ingredients"].rows) < counts["ingredients"]

IsPrefix(a, b) == Len(a) <= Len(b) /\ a = SubSeq(b, 1, Len(a))

FourBatches(b) == <<b, b, b, 7>>

TextLoopDone ==
    pc \in {"final_commit", "stats"} \/ Completed \/ failure = "report"

LoopDone(t) ==
    IF t = "products" THEN cur = "ingredients"
    ELSE pc = "report" \/ Completed

ExpectedRows(t) ==
    IF t = "openfoodfacts"
    THEN [i \in 1..(Len(csv_file) - 1) |->
            Normalize(csv_file[i + 1], Len(csv_file[1]))]
    ELSE ReplaceAll(<<>>, remote[t])

(* C6: a completed run leaves the same destination table whatever the      *)
(* destination held before, an empty table filled from the source; so a    *)
(* second completed run over the same inputs leaves what the first left.   *)
C6_Idempotent ==
    Completed =>
      \A t \in TablesOf(pipeline) :
        /\ committed[t] = [exists |-> TRUE, indexes |-> IndexesOf(t),
                           rows |-> ExpectedRows(t)]
        /\ committed[t] = first_result.dest[t]

(* A second run has completed over a non-empty source, and the destination *)
(* held other rows before the first run.                                   *)
C6_Witness ==
    /\ Completed
    /\ run = 2
    /\ \A t \in TablesOf(pipeline) :
         /\ dest0[t].rows # <<>>
         /\ committed[t].rows # <<>>
         /\ committed[t].rows # dest0[t].rows

PreconditionFails ==
    \/ pipeline = "remote" /\ ~remote_ok
    \/ pipeline = "text" /\ (~csv_exists \/ ~db_exists)

(* C7: when the remote connection cannot be opened, or the input file or   *)
(* the destination file is missing, no table or index is dropped, created  *)
(* or altered and no row is written: the destination stays as it was.      *)
C7_PreconditionFailureUntouched ==
    PreconditionFails =>
      /\ committed = dest0
      /\ working = dest0
      /\ ~prepared
      /\ \A t \in Tables : writes[t] = <<>>
      /\ pc = "exited" => failure = "precondition"

(* The remote connection failed while the destination held tables and rows *)
(* of an earlier run.                                                      *)
C7_Witness ==
    /\ pipeline = "remote"
    /\ pc = "exited"
    /\ failure = "precondition"
    /\ \A t \in {"products", "ingredients"} : dest0[t].rows # <<>>

(* C8: a failed write ends the run at once: the step of the failure        *)
(* commits nothing and writes no batch, the destination keeps exactly what *)
(* was committed before and nothing of the failed batch, and the only step *)
(* after it is a new run of the script.                                    *)
C8_WriteFailureAborts ==
    [][ /\ (failure = "none" /\ failure' = "write") =>
             /\ pc \in {"executemany", "final_executemany"}
             /\ pc' = "exited"
             /\ exit_code' # -1
             /\ committed' = committed
             /\ working' = committed
             /\ writes' = writes
        /\ failure = "write" =>
             /\ run' = run + 1
             /\ committed' = committed ]_vars

(* A write has failed after batches were committed and while a further     *)
(* batch was written but not committed.                                    *)
C8_Witness ==
    /\ failure = "write"
    /\ \E t \in TablesOf(pipeline) :
         /\ Len(committed[t].rows) > 0
         /\ Len(writes[t]) > 0
         /\ Sum(writes[t]) > Len(committed[t].rows)

(* C9: a run that ends in a failure ends with a non-zero exit status, and  *)
(* only a run that completes the transfer ends with status zero, in both   *)
(* scripts.                                                                *)
C9_NonZeroExitOnFailure ==
    pc = "exited" => (exit_code = 0 <=> outcome = "completed")

(* The records of the first k batches of table t, of b records each.       *)
FirstBatches(recs, b, k) == SubSeq(recs, 1, Min(k * b, Len(recs)))

(* The source records of table t as they are written.                      *)
SourceRecords(t) ==
    IF t = "openfoodfacts"
    THEN [i \in 1..(Len(csv_file) - 1) |->
            Normalize(csv_file[i + 1], Len(csv_file[1]))]
    ELSE remote[t]

WrittenAs(t, recs) ==
    IF t = "openfoodfacts" THEN recs ELSE ReplaceAll(<<>>, recs)

RECURSIVE Flatten(_)
Flatten(pages) ==
    IF pages = <<>> THEN <<>> ELSE Head(pages) \o Flatten(Tail(pages))

(* How many times record r occurs among recs.                              *)
Times(r, recs) == Cardinality({i \in 1..Len(recs) : recs[i] = r})

(* The records of table t that were in it at the start and still are: no   *)
(* deleted row comes back, so they have been there all the time.           *)
Stable(t) == Range(remote[t]) \cap Range(live[t])

(* C11: paging by LIMIT and OFFSET over the key-ordered source fetches     *)
(* every record that stays in the source table during the whole run in     *)
(* exactly one page: never in two pages, and in one once the loop is over; *)
(* also when other rows are inserted or deleted between two page queries   *)
(* and after the count.                                                    *)
C11_NoSkipNoDuplicate ==
    pipeline = "remote" =>
      \A t \in {"products", "ingredients"} :
        \A r \in Stable(t) :
          /\ Times(r, Flatten(fetched[t])) <= 1
          /\ LoopDone(t) => Times(r, Flatten(fetched[t])) = 1

CeilDiv(a, b) == (a + b - 1) \div b

(* The safety part of C14: the reader never goes past the last record of   *)
(* the file and the text loop is over only there; a remote loop has made   *)
(* at most ceil(total / batch_size) page queries, and its offset is        *)
(* batch_size times the number of pages written.                           *)
C14_Bounded ==
    /\ pipeline = "text" =>
         /\ pos <= Len(csv_file)
         /\ TextLoopDone => pos = Len(csv_file)
    /\ pipeline = "remote" =>
         /\ Len(fetched[cur]) <= CeilDiv(total, BatchSizeOf(cur))
         /\ pc \in {"while", "executemany"} =>
              offset = Len(writes[cur]) * BatchSizeOf(cur)

(* C14: every transfer loop ends, for every finite source and every        *)
(* batch_size >= 1: the run reaches its end, the text loop after the last  *)
(* record and each remote loop after at most ceil(total / batch_size) page *)
(* queries, also when the source grows or shrinks during the run.          *)
C14_Terminates == [](C14_Bounded) /\ <>(pc = "exited")

(* A remote-copy run has completed although its source changed as often as *)
(* the model allows; the products loop ended at an empty page, before      *)
(* offset reached total.                                                   *)
C14_Witness ==
    /\ Completed
    /\ pipeline = "remote"
    /\ drifts = MaxDrift
    /\ fetched["products"] # <<>>
    /\ fetched["products"][Len(fetched["products"])] = <<>>
    /\ fetched["ingredients"] # <<>>

(* The text loop has read the whole file and its last commit is done.      *)
TextTransferred ==
    pipeline = "text" /\ (pc = "stats" \/ Completed \/ failure = "report")

(* C12: after a text-import run that reaches the end of the source the     *)
(* table holds exactly one row per data record, in source order, each the  *)
(* normalized record: none lost, none written twice, whether the number of *)
(* records is 0, below batch_size, a multiple of it or leaves a remainder. *)
C12_OneRowPerRecord ==
    TextTransferred =>
      /\ Len(committed["openfoodfacts"].rows) = Len(csv_file) - 1
      /\ \A i \in 1..(Len(csv_file) - 1) :
           committed["openfoodfacts"].rows[i]
             = Normalize(csv_file[i + 1], Len(csv_file[1]))
      /\ Sum(writes["openfoodfacts"]) = Len(csv_file) - 1

(* A run has completed over a file whose record count leaves a remainder   *)
(* after several full batches of more than one record.                     *)
C12_Witness ==
    /\ TextTransferred
    /\ Completed
    /\ batch_size > 1
    /\ Len(writes["openfoodfacts"]) > 2
    /\ (Len(csv_file) - 1) % batch_size # 0

(* C13: the first line of the file is used as the header only: it gives    *)
(* the column names and is never written as a row, neither put into the    *)
(* batch buffer; the first record buffered and the first row written come  *)
(* from the second line of the file.                                       *)
C13_HeaderNotWritten ==
    (pipeline = "text" /\ prepared) =>
      /\ columns = csv_file[1]
      /\ \A k \in 1..Len(TextTable) : TextTable[k] # csv_file[1]
      /\ \A i \in 1..Len(batch) : batch[i] # csv_file[1]
      /\ TextTable # <<>> =>
           TextTable[1] = Normalize(csv_file[2], Len(columns))
      /\ \A i \in 1..Len(batch) :
           /\ pos - Len(batch) + i >= 2
           /\ batch[i] = Normalize(RawOfBatch(i), Len(columns))
      /\ Len(TextTable) <= Len(csv_file) - 1

(* A run has completed with rows written, and the second line of the file  *)
(* had fewer fields than the header.                                       *)
C13_Witness ==
    /\ pipeline = "text"
    /\ Completed
    /\ Len(TextTable) > 1
    /\ Len(csv_file[2]) < Len(columns)

(* The records written to table t so far in this run, in the order        *)
(* written: those of the first Len(writes[t]) pages fetched.               *)
Written(t) == Flatten(SubSeq(fetched[t], 1, Len(writes[t])))

(* recs[i] is the last of recs with its key.                               *)
LastWith(recs, i) == \A j \in (i + 1)..Len(recs) : recs[j][1] # recs[i][1]

(* What C15 says of the rows rs of a table after the records recs were     *)
(* written into it, empty before: no two rows share a non-null key, every  *)
(* non-null key written has its row and this is the last record written    *)
(* with the key, and every record with a NULL key is a row.                *)
KeptLast(rs, recs) ==
    /\ \A i, j \in 1..Len(rs) :
         (i # j /\ rs[i][1] = rs[j][1]) => rs[i][1] = Null
    /\ Range(rs) \subseteq Range(recs)
    /\ \A i \in 1..Len(recs) :
         (recs[i][1] = Null \/ LastWith(recs, i)) => recs[i] \in Range(rs)

(* C15: remote-copy writes are insert-or-replace on the unique key         *)
(* (products.ean13, ingredients.title). After any sequence of batch writes *)
(* of a run no two rows of a table share a non-null key and the row of a   *)
(* key is the last record written with it; a page whose keys are already   *)
(* in the table, or occur twice in the page, is written without a failure, *)
(* the later record taking the place of the earlier row.                   *)
C15_InsertOrReplace ==
    (pipeline = "remote" /\ prepared /\ outcome = "running") =>
      /\ \A t \in {"products", "ingredients"} :
           KeptLast(working[t].rows, Written(t))
      /\ pc = "executemany" =>
           KeptLast(InsertOrReplaceMany(working[cur], rows).rows,
                    Written(cur) \o rows)

(* A page is about to be written whose first record has the key of a row   *)
(* written by an earlier page, and the table holds a row of another key.   *)
C15_Witness ==
    /\ pipeline = "remote"
    /\ pc = "executemany"
    /\ rows[1][1] # Null
    /\ \E i \in 1..Len(working[cur].rows) :
         /\ working[cur].rows[i][1] = rows[1][1]
         /\ working[cur].rows[i] # rows[1]
    /\ Cardinality(Keys(working[cur].rows)) > 1

(* The batches of table t written and not yet committed, and the number   *)
(* of records of t written and committed in this run.                      *)
Uncommitted(t) == IF pipeline = "text" \/ t = cur THEN pending ELSE 0
CommittedCount(t) ==
    Sum(SubSeq(writes[t], 1, Len(writes[t]) - Uncommitted(t)))

(* C16: a progress line is printed only after the batch it reports has     *)
(* been committed: while a run goes on, at least c records of the table    *)
(* are committed for every line with the cumulative count c printed so     *)
(* far, in both scripts.                                                   *)
C16_ProgressAfterCommit ==
    outcome = "running" =>
      \A i \in 1..Len(printed) :
        printed[i][2] <= CommittedCount(printed[i][1])

(* C17: every batch write carries between 1 and batch_size records. The    *)
(* text buffer never holds more than batch_size records and is written as  *)
(* soon as it holds batch_size; a remote page has at most batch_size       *)
(* records; no write is made with an empty batch, and an empty source is   *)
(* copied without any write.                                               *)
C17_BatchSizes ==
    /\ \A t \in Tables : \A i \in 1..Len(writes[t]) :
         writes[t][i] >= 1 /\ writes[t][i] <= BatchSizeOf(t)
    /\ pipeline = "text" =>
         /\ Len(batch) <= batch_size
         /\ (outcome = "running" /\ Len(batch) = batch_size) =>
              pc = "executemany"
         /\ pc \in {"executemany", "final_executemany"} => batch # <<>>
         /\ Len(csv_file) <= 1 => writes["openfoodfacts"] = <<>>
    /\ pipeline = "remote" =>
         /\ \A t \in {"products", "ingredients"} :
              /\ \A i \in 1..Len(fetched[t]) :
                   Len(fetched[t][i]) <= BatchSizeOf(t)
              /\ remote[t] = <<>> => writes[t] = <<>>
         /\ pc = "executemany" =>
              Len(rows) >= 1 /\ Len(rows) <= BatchSizeOf(cur)

(* A text-import run has completed that wrote full batches of more than    *)
(* one record and a last batch of fewer records.                           *)
C17_Witness ==
    /\ pipeline = "text"
    /\ Completed
    /\ batch_size > 1
    /\ \E i, j \in 1..Len(writes["openfoodfacts"]) :
         /\ writes["openfoodfacts"][i] = batch_size
         /\ writes["openfoodfacts"][j] < batch_size

(* C18: remote-copy moves the two tables one after the other. Once the     *)
(* ingredients transfer has begun (its count, its first page), products    *)
(* is complete and committed, and it stays so: a failure during the        *)
(* ingredients transfer leaves the whole products table committed.         *)
C18_ProductsBeforeIngredients ==
    /\ (pipeline = "remote" /\ cur = "products") =>
        /\ fetched["ingredients"] = <<>>
        /\ writes["ingredients"] = <<>>
    /\ (pipeline = "remote" /\ cur = "ingredients") =>
        /\ committed["products"].rows = ExpectedRows("products")
        /\ working["products"].rows = ExpectedRows("products")
        /\ counts["products"] = Len(remote["products"])

(* The ingredients transfer has failed after a page of it was committed,   *)
(* and the products table is not empty.                                    *)
C18_Witness ==
    /\ pipeline = "remote"
    /\ cur = "ingredients"
    /\ outcome = "failed"
    /\ committed["ingredients"].rows # <<>>
    /\ Len(committed["ingredients"].rows) < Len(ExpectedRows("ingredients"))
    /\ Len(committed["products"].rows) > 1

(* C19: in remote-copy every connection that was opened is closed when the *)
(* process ends, on every path: a completed run, a failed remote connect,  *)
(* a failed schema step, a failed transfer; and a connection that was      *)
(* never opened is not closed.                                             *)
C19_ConnectionsClosed ==
    (pipeline = "remote" /\ pc = "exited") =>
      /\ pg_conn \in {"none", "closed"}
      /\ sqlite_conn \in {"none", "closed"}
      /\ failure = "precondition" =>
           pg_conn = "none" /\ sqlite_conn = "none"

=============================================================================
